---------------------------- MODULE Spec2Model ----------------------------
(***************************************************************************)
(* Model of check_vestings.py: the identifier normaliser bytes32_from_any  *)
(* and the row loop and output-table assembly of main().                   *)
(*                                                                         *)
(* Text is a sequence of fragments.  Identifier strings are sequences of   *)
(* one-character fragments, so that strip(), startswith(), slicing, len()  *)
(* and bytes.fromhex() work on characters; exception messages are built    *)
(* from literal fragments and the interpolated values.  Bytes are          *)
(* sequences of numbers 0..255.  Python values are tagged records          *)
(* [t |-> type, v |-> payload].                                            *)
(***************************************************************************)
EXTENDS Integers, Sequences, FiniteSets, TLC

VARIABLES
    \* ---- bytes32_from_any applied on its own (SpecNorm) ----
    gen,        \* how the argument was built (pattern, prefix, padding, ...)
    nIn,        \* the argument v
    nOut,       \* what bytes32_from_any(v) returned or raised
    nOut2,      \* what bytes32_from_any gave when applied to its own result
    nPc,        \* "idle" | "start" | "called" | "again"
    \* ---- main() (Spec) ----
    df,         \* the input table, a sequence of [owner, vestingId]
    idx,        \* rows of df the loop has consumed
    rows,       \* the list `rows` of dicts
    callLog,    \* invocations of contract.functions.vestings(..).call(): for
                \* which row, with which argument, and what came back
    out_df,     \* the output DataFrame
    n_err,      \* the error count reported at the end
    pc,         \* "idle" | "loop" | "write" | "done" | "raised"
    status      \* exit status of main(), or the uncaught exception

normVars == <<gen, nIn, nOut, nOut2, nPc>>
mainVars == <<df, idx, rows, callLog, out_df, n_err, pc, status>>
vars == <<gen, nIn, nOut, nOut2, nPc,
          df, idx, rows, callLog, out_df, n_err, pc, status>>

-----------------------------------------------------------------------------
(* Python values *)

PyStrVal(s)   == [t |-> "str",   v |-> s]
PyBytesVal(b) == [t |-> "bytes", v |-> b]
PyFloatNaN    == [t |-> "float", v |-> <<"n", "a", "n">>]

\* isinstance(v, (bytes, bytearray))
IsBytesLike(v) == v.t = "bytes"

\* str(v) for the values a CSV cell can hold: a str is itself, a float NaN
\* (an empty cell) is "nan".  v.v of a non-bytes value is its str() text.
PyStr(v) == v.v

\* Exceptions: class and message
Exc(cls, msg) == [cls |-> cls, msg |-> msg]
NoExc == Exc("", <<>>)

\* repr(e) of an exception with one string argument: Cls('message')
PyRepr(e) == <<e.cls, "('">> \o e.msg \o <<"')">>

Return(b) == [ok |-> TRUE,  val |-> b,    exc |-> NoExc]
Raise(e)  == [ok |-> FALSE, val |-> <<>>, exc |-> e]

-----------------------------------------------------------------------------
(* bytes32_from_any *)

IdBytes  == 32
HexChars == 64

\* characters str.strip() removes and bytes.fromhex() skips
Whitespace == {" ", "\t", "\n"}

HexLower == <<"0", "1", "2", "3", "4", "5", "6", "7", "8", "9",
              "a", "b", "c", "d", "e", "f">>
HexUpper == <<"0", "1", "2", "3", "4", "5", "6", "7", "8", "9",
              "A", "B", "C", "D", "E", "F">>

\* the value of each hexadecimal digit, either case
HexTable ==
    [c \in {HexLower[k] : k \in 1..16} \cup {HexUpper[k] : k \in 1..16} |->
        (CHOOSE k \in 1..16 : HexLower[k] = c \/ HexUpper[k] = c) - 1]

IsHexDigit(c) == c \in DOMAIN HexTable
HexVal(c) == HexTable[c]

RECURSIVE LStrip(_)
LStrip(s) == IF s # <<>> /\ Head(s) \in Whitespace THEN LStrip(Tail(s)) ELSE s

RECURSIVE RStrip(_)
RStrip(s) ==
    IF s # <<>> /\ s[Len(s)] \in Whitespace
    THEN RStrip(SubSeq(s, 1, Len(s) - 1))
    ELSE s

\* s.strip()
Strip(s) == RStrip(LStrip(s))

\* s.startswith("0x")
StartsWith0x(s) == Len(s) >= 2 /\ s[1] = "0" /\ s[2] = "x"

\* variant: no prefix is removed
HexPartKeep(s) == s

\* variant: the prefix is removed in either case
HexPartAnyCase(s) ==
    IF Len(s) >= 2 /\ s[1] = "0" /\ s[2] \in {"x", "X"}
    THEN SubSeq(s, 3, Len(s))
    ELSE s

\* s_hex: s[2:] if s starts with "0x", else s
HexPart(s) == IF StartsWith0x(s) THEN SubSeq(s, 3, Len(s)) ELSE s

\* bytes.fromhex: whitespace between byte pairs is skipped, every other
\* character must be the first of two adjacent hexadecimal digits
RECURSIVE FromHexAt(_, _, _)
FromHexAt(s, i, acc) ==
    IF i > Len(s) THEN Return(acc)
    ELSE IF s[i] \in Whitespace THEN FromHexAt(s, i + 1, acc)
    ELSE IF ~IsHexDigit(s[i]) \/ i + 1 > Len(s) \/ ~IsHexDigit(s[i + 1])
         THEN Raise(Exc("ValueError",
                        <<"non-hexadecimal number found in fromhex() arg">>))
    ELSE FromHexAt(s, i + 2, Append(acc, 16 * HexVal(s[i]) + HexVal(s[i + 1])))

FromHex(s) == FromHexAt(s, 1, <<>>)

ErrBytesLen(n) == Exc("ValueError", <<"Expected 32 bytes, got ", ToString(n)>>)
ErrHexLen(n, s) ==
    Exc("ValueError",
        <<"vestingId must be 32 bytes hex (64 chars). Got len=", ToString(n),
          " value=">> \o s)
ErrInvalidHex(s) == Exc("ValueError", <<"Invalid hex in vestingId: ">> \o s)

\* variant: the digits are decoded before the length is checked
FromTextHexFirst(s) ==
    LET s_hex == HexPart(s)
        dec   == FromHex(s_hex)
    IN  IF ~dec.ok THEN Raise(ErrInvalidHex(s))
        ELSE IF Len(s_hex) # HexChars THEN Raise(ErrHexLen(Len(s_hex), s))
        ELSE Return(dec.val)

\* lines 56-67: the branch for a value that is not bytes-like, given the
\* stripped text s
FromText(s) ==
    LET s_hex == HexPart(s)
        dec   == FromHex(s_hex)
    IN  IF Len(s_hex) # HexChars THEN Raise(ErrHexLen(Len(s_hex), s))
        ELSE IF dec.ok THEN Return(dec.val)
        ELSE Raise(ErrInvalidHex(s))

bytes32_from_any(v) ==
    IF IsBytesLike(v)
    THEN IF Len(v.v) # IdBytes THEN Raise(ErrBytesLen(Len(v.v))) ELSE Return(v.v)
    ELSE FromText(Strip(PyStr(v)))

-----------------------------------------------------------------------------
(* main(): the row loop *)

PyIntVal(limbs) == [t |-> "int",  v |-> limbs]
PyBoolVal(b)    == [t |-> "bool", v |-> <<b>>]
EmptyStr        == PyStrVal(<<>>)

\* An unsigned integer of up to 128 bits is eight 16-bit limbs, most
\* significant first: Python's int has no width, and none is lost here.
Limbs == 8
UInt(hi, lo) == PyIntVal([k \in 1..Limbs |-> IF k = Limbs THEN lo
                                              ELSE IF k = Limbs - 1 THEN hi ELSE 0])
UIntMax128 == PyIntVal([k \in 1..Limbs |-> 65535])
UIntTwo64  == PyIntVal([k \in 1..Limbs |-> IF k = Limbs - 4 THEN 1 ELSE 0])

\* variant: a 64-bit integer, the upper limbs lost
PyIntTrunc64(x) == PyIntVal([k \in 1..Limbs |-> IF k <= Limbs - 4 THEN 0 ELSE x.v[k]])

\* int(x) of a value that is an int already
PyInt(x) == x

\* A dict is a sequence of [k, v] items in insertion order.
Item(k, v) == [k |-> k, v |-> v]
DictKeys(d) == [i \in 1..Len(d) |-> d[i].k]
DictHas(d, k) == \E i \in 1..Len(d) : d[i].k = k
DictGet(d, k) == d[CHOOSE i \in 1..Len(d) : d[i].k = k].v

\* lines 140-152: the dict of a row whose call returned `result`
EnrichedRow(owner, raw, result) ==
    << Item("owner", owner),
       Item("vestingId", PyStrVal(PyStr(raw))),
       Item("account", result[1]),
       Item("amount", PyInt(result[6])),
       Item("amountClaimed", PyInt(result[7])) >>

\* lines 155-164: the dict of a row whose try block raised e
FailedRow(owner, raw, e) ==
    << Item("owner", owner),
       Item("vestingId", PyStrVal(PyStr(raw))),
       Item("account", EmptyStr),
       Item("amount", EmptyStr),
       Item("amountClaimed", EmptyStr),
       Item("error", PyStrVal(PyRepr(e))) >>

NoDict == <<>>

\* variant: a failed accessor call is made a second time
TryBlockRetry(owner, raw, reply) ==
    LET norm == bytes32_from_any(raw) IN
    IF ~norm.ok THEN [raised |-> TRUE, exc |-> norm.exc, calls |-> <<>>, dict |-> NoDict]
    ELSE IF ~reply.ok
         THEN [raised |-> TRUE, exc |-> reply.exc, calls |-> <<norm.val, norm.val>>,
               dict |-> NoDict]
    ELSE [raised |-> FALSE, exc |-> NoExc, calls |-> <<norm.val>>,
          dict |-> EnrichedRow(owner, raw, reply.val)]

\* lines 136-152, the try block for one row, given what the accessor replies
\* if it is invoked: whether it raised and what, the arguments of the
\* accessor calls it made, and the dict it appended if it did not raise
TryBlock(owner, raw, reply) ==
    LET norm == bytes32_from_any(raw) IN
    IF ~norm.ok THEN [raised |-> TRUE, exc |-> norm.exc, calls |-> <<>>, dict |-> NoDict]
    ELSE IF ~reply.ok
         THEN [raised |-> TRUE, exc |-> reply.exc, calls |-> <<norm.val>>,
               dict |-> NoDict]
    ELSE [raised |-> FALSE, exc |-> NoExc, calls |-> <<norm.val>>,
          dict |-> EnrichedRow(owner, raw, reply.val)]

\* variant: a row whose try block raised is skipped
RowsAfterDropFailed(rs, owner, raw, reply) ==
    LET t == TryBlock(owner, raw, reply) IN
    IF t.raised THEN rs ELSE Append(rs, t.dict)

\* variant: a failure restarts the list
RowsAfterClobber(rs, owner, raw, reply) ==
    LET t == TryBlock(owner, raw, reply) IN
    IF t.raised THEN <<FailedRow(owner, raw, t.exc)>> ELSE Append(rs, t.dict)

\* lines 135-164: `rows` after the try/except of one row
RowsAfter(rs, owner, raw, reply) ==
    LET t == TryBlock(owner, raw, reply) IN
    IF t.raised THEN Append(rs, FailedRow(owner, raw, t.exc)) ELSE Append(rs, t.dict)

-----------------------------------------------------------------------------
(* main(): the output table *)

\* the columns of pd.DataFrame(rows): the keys of the dicts, in order of
\* first appearance
RECURSIVE AddKeys(_, _)
AddKeys(cols, ks) ==
    IF ks = <<>> THEN cols
    ELSE AddKeys(IF \E j \in 1..Len(cols) : cols[j] = Head(ks)
                 THEN cols ELSE Append(cols, Head(ks)),
                 Tail(ks))

RECURSIVE FrameColumns(_)
FrameColumns(rs) ==
    IF rs = <<>> THEN <<>>
    ELSE AddKeys(FrameColumns(SubSeq(rs, 1, Len(rs) - 1)), DictKeys(rs[Len(rs)]))

SeqToSet(q) == { q[i] : i \in 1..Len(q) }

\* pd.DataFrame(rows): one line per dict, NaN where a dict lacks the key
DataFrame(rs) ==
    LET cols == FrameColumns(rs) IN
    [ columns |-> cols,
      data |-> [i \in 1..Len(rs) |->
                  [c \in SeqToSet(cols) |->
                      IF DictHas(rs[i], c) THEN DictGet(rs[i], c) ELSE PyFloatNaN]] ]

base_cols == <<"owner", "vestingId", "account", "amount", "amountClaimed">>

\* SelectSeq with the test written out: the members of q not in `drop`
RECURSIVE Without(_, _)
Without(q, drop) ==
    IF q = <<>> THEN <<>>
    ELSE IF Head(q) \in drop THEN Without(Tail(q), drop)
    ELSE <<Head(q)>> \o Without(Tail(q), drop)

\* variant: no column beyond the base columns is kept
ExtraColsNone(frame) == <<>>

\* line 170
ExtraCols(frame) == Without(frame.columns, SeqToSet(base_cols))

\* out_df[cols] raises KeyError unless every label is a column
CanSelect(frame, cols) == SeqToSet(cols) \subseteq SeqToSet(frame.columns)

Select(frame, cols) ==
    [ columns |-> cols,
      data |-> [i \in 1..Len(frame.data) |->
                  [c \in SeqToSet(cols) |-> frame.data[i][c]]] ]

\* line 176: out_df["error"].notna().sum()
CountErrors(frame) ==
    Cardinality({ i \in 1..Len(frame.data) : frame.data[i]["error"] # PyFloatNaN })

-----------------------------------------------------------------------------
(* Inputs of main(): the table read from the CSV and the accessor's replies *)

Pad(k, c) == [j \in 1..k |-> c]
RepeatPair(p, n) == [k \in 1..n |-> p[((k - 1) % 2) + 1]]
Overwrite(s, P, c) == [k \in 1..Len(s) |-> IF k \in P THEN c ELSE s[k]]

MaxRows == 3

Id0x11     == <<"0", "x">> \o RepeatPair(<<"1", "1">>, HexChars)
IdPadded   == <<" ", "0", "x">> \o RepeatPair(<<"a", "B">>, HexChars) \o <<" ">>
IdNotHex   == <<"n", "o", "t", "-", "h", "e", "x">>
IdBadDigit == Overwrite(RepeatPair(<<"1", "1">>, HexChars), {1}, "g")
IdSpaced   == Overwrite(RepeatPair(<<"1", "1">>, HexChars), {3, 6}, " ")

OwnerA == PyStrVal(<<"0xA1">>)
OwnerB == PyStrVal(<<"0xB2">>)

InputRows ==
    { [owner |-> OwnerA, vestingId |-> PyStrVal(Id0x11)],
      [owner |-> OwnerB, vestingId |-> PyStrVal(IdPadded)],
      [owner |-> OwnerA, vestingId |-> PyStrVal(IdNotHex)],
      [owner |-> OwnerB, vestingId |-> PyStrVal(IdBadDigit)],
      [owner |-> OwnerA, vestingId |-> PyStrVal(IdSpaced)],
      [owner |-> OwnerB, vestingId |-> PyFloatNaN] }

Tables == UNION { [1..n -> InputRows] : n \in 0..MaxRows }

\* the nine fields of vestings(): address, uint8, bool, uint16, uint64,
\* uint128, uint128, uint64, bool
RecordSmall ==
    << PyStrVal(<<"0xBEEF">>), UInt(0, 0), PyBoolVal(TRUE), UInt(0, 104),
       UInt(0, 1700), UInt(0, 1000), UInt(0, 250), UInt(0, 7), PyBoolVal(FALSE) >>
RecordWide ==
    << PyStrVal(<<"0xCAFE">>), UInt(0, 1), PyBoolVal(FALSE), UInt(0, 52),
       UInt(1, 0), UIntMax128, UIntTwo64, UInt(0, 9), PyBoolVal(TRUE) >>

Replies ==
    { Return(RecordSmall), Return(RecordWide),
      Raise(Exc("ContractLogicError", <<"execution reverted">>)) }

-----------------------------------------------------------------------------
(* Arguments for bytes32_from_any applied on its own.  An argument is      *)
(* built from a two-character pattern repeated to n characters, with some   *)
(* positions overwritten by another character, a prefix and whitespace     *)
(* around it; or it is a byte string of m bytes; or a float NaN.           *)

MaxDelta == 2      \* lengths range over HexChars +- MaxDelta, IdBytes +- MaxDelta
MaxPad   == 1      \* whitespace characters before and after the text
MaxSubs  == 2      \* overwritten positions

Patterns == { [chars |-> <<"1", "1">>, byte |-> 17],
              [chars |-> <<"a", "B">>, byte |-> 171],
              [chars |-> <<"F", "0">>, byte |-> 240] }
Prefixes == { <<>>, <<"0", "x">>, <<"0", "X">> }
SubChars == { "g", "-", " ", "\t" }
SubPos   == { 1, 3, 6, HexChars }
SubSets  == { P \in SUBSET SubPos : Cardinality(P) <= MaxSubs }
TextLens == {0} \cup ((HexChars - MaxDelta)..(HexChars + MaxDelta))
ByteLens == {0} \cup ((IdBytes - MaxDelta)..(IdBytes + MaxDelta))

NoGen == [form |-> "none", pat |-> CHOOSE p \in Patterns : p.byte = 17, n |-> 0,
          prefix |-> <<>>, lead |-> 0, trail |-> 0, subs |-> {}, ch |-> "g"]

TextGens ==
    { [form |-> "text", pat |-> p, n |-> n, prefix |-> x, lead |-> l, trail |-> r,
       subs |-> P, ch |-> c] :
        p \in Patterns, n \in TextLens, x \in Prefixes, l \in 0..MaxPad,
        r \in 0..MaxPad, P \in SubSets \ {{}}, c \in SubChars }
    \cup
    { [form |-> "text", pat |-> p, n |-> n, prefix |-> x, lead |-> l, trail |-> r,
       subs |-> {}, ch |-> "g"] :
        p \in Patterns, n \in TextLens, x \in Prefixes, l \in 0..MaxPad,
        r \in 0..MaxPad }

BytesGens ==
    { [NoGen EXCEPT !.form = "bytes", !.pat = p, !.n = m] :
        p \in Patterns, m \in ByteLens }

Gens == TextGens \cup BytesGens \cup { [NoGen EXCEPT !.form = "nan"] }

Build(g) ==
    CASE g.form = "text" ->
            PyStrVal(Pad(g.lead, " ") \o g.prefix
                     \o Overwrite(RepeatPair(g.pat.chars, g.n), g.subs, g.ch)
                     \o Pad(g.trail, "\n"))
      [] g.form = "bytes" -> PyBytesVal([k \in 1..g.n |-> g.pat.byte])
      [] OTHER -> PyFloatNaN

NotYet == Raise(Exc("NotCalled", <<>>))

InitNormIdle ==
    /\ gen = NoGen
    /\ nIn = PyFloatNaN
    /\ nOut = NotYet
    /\ nOut2 = NotYet
    /\ nPc = "idle"

InitMainIdle ==
    /\ df = <<>>
    /\ idx = 0
    /\ rows = <<>>
    /\ callLog = <<>>
    /\ out_df = [columns |-> <<>>, data |-> <<>>]
    /\ n_err = 0
    /\ pc = "idle"
    /\ status = "running"

InitNorm ==
    /\ gen \in Gens
    /\ nIn = Build(gen)
    /\ nOut = NotYet
    /\ nOut2 = NotYet
    /\ nPc = "start"
    /\ InitMainIdle

\* bytes32_from_any(v)
Normalize ==
    /\ nPc = "start"
    /\ nOut' = bytes32_from_any(nIn)
    /\ nPc' = "called"
    /\ UNCHANGED <<gen, nIn, nOut2, mainVars>>

\* bytes32_from_any(bytes32_from_any(v)), when the first call returned
Renormalize ==
    /\ nPc = "called"
    /\ nOut.ok
    /\ nOut2' = bytes32_from_any(PyBytesVal(nOut.val))
    /\ nPc' = "again"
    /\ UNCHANGED <<gen, nIn, nOut, mainVars>>

NextNorm == Normalize \/ Renormalize

SpecNorm == InitNorm /\ [][NextNorm]_vars

-----------------------------------------------------------------------------
(* main() as a state machine *)

\* lines 126-129
Init ==
    /\ df \in Tables
    /\ idx = 0
    /\ rows = <<>>
    /\ callLog = <<>>
    /\ out_df = [columns |-> <<>>, data |-> <<>>]
    /\ n_err = 0
    /\ pc = "loop"
    /\ status = "running"
    /\ InitNormIdle

\* lines 131-164: one iteration of the loop
EnrichRow ==
    /\ pc = "loop"
    /\ idx < Len(df)
    /\ \E reply \in Replies :
         LET row == df[idx + 1]
             t   == TryBlock(row.owner, row.vestingId, reply)
         IN  /\ rows' = RowsAfter(rows, row.owner, row.vestingId, reply)
             /\ callLog' = callLog \o
                    [j \in 1..Len(t.calls) |->
                        [row |-> idx + 1, arg |-> t.calls[j], reply |-> reply]]
    /\ idx' = idx + 1
    /\ UNCHANGED <<df, out_df, n_err, pc, status, normVars>>

\* lines 166-171: build the DataFrame and put the base columns first
Assemble ==
    /\ pc = "loop"
    /\ idx = Len(df)
    /\ LET frame == DataFrame(rows)
           cols  == base_cols \o ExtraCols(frame)
       IN  IF CanSelect(frame, cols)
           THEN /\ out_df' = Select(frame, cols)
                /\ pc' = "write"
                /\ UNCHANGED status
           ELSE /\ out_df' = frame
                /\ pc' = "raised"
                /\ status' = "KeyError"
    /\ UNCHANGED <<df, idx, rows, callLog, n_err, normVars>>

\* lines 173-180: write the CSV, count the errors, return 0
WriteOut ==
    /\ pc = "write"
    /\ n_err' = IF "error" \in SeqToSet(out_df.columns) THEN CountErrors(out_df) ELSE 0
    /\ pc' = "done"
    /\ status' = "return 0"
    /\ UNCHANGED <<df, idx, rows, callLog, out_df, normVars>>

Next == EnrichRow \/ Assemble \/ WriteOut

Spec == Init /\ [][Next]_vars

-----------------------------------------------------------------------------
(* Claims about bytes32_from_any, checked under SpecNorm *)

\* the 32 bytes a 64-character repetition of the pattern stands for
SeedBytes(g) == [k \in 1..IdBytes |-> g.pat.byte]

\* the argument is the plain text h of a valid 64-character hex string,
\* with the given prefix and nothing else around it
IsHexText(g, prefix) ==
    /\ g.form = "text"
    /\ g.n = HexChars
    /\ g.subs = {}
    /\ g.lead = 0
    /\ g.trail = 0
    /\ g.prefix = prefix

IsSeedBytes(g) == g.form = "bytes" /\ g.n = IdBytes

Called == nPc \in {"called", "again"}

\* C5: for a valid 64-character hex string h, bytes32_from_any("0x" + h),
\* bytes32_from_any(h) and bytes32_from_any(bytes.fromhex(h)) all return the
\* same 32 bytes, the bytes h stands for, and bytes32_from_any applied to that
\* result returns it unchanged.
C5_RepresentationInvariant ==
    (IsHexText(gen, <<"0", "x">>) \/ IsHexText(gen, <<>>) \/ IsSeedBytes(gen)) =>
        /\ Called => nOut = Return(SeedBytes(gen))
        /\ nPc = "again" => nOut2 = nOut

C5_Witness ==
    /\ nPc = "again"
    /\ IsHexText(gen, <<"0", "x">>)
    /\ gen.pat.byte = 171
    /\ nOut2.ok
    /\ Len(nOut2.val) = IdBytes

\* C6 as claimed: bytes32_from_any("0X" + h) returns the same 32 bytes as
\* bytes32_from_any("0x" + h) and bytes32_from_any(h).
C6_UpperPrefixStripped ==
    (Called /\ IsHexText(gen, <<"0", "X">>)) => nOut = Return(SeedBytes(gen))

\* C6 amended: only the lower-case prefix "0x" is stripped.  For a valid
\* 64-character hex string h, bytes32_from_any("0x" + h) and
\* bytes32_from_any(h) return the 32 bytes of h, and bytes32_from_any("0X" + h)
\* raises the wrong-length ValueError, reporting len=66 and the value.
C6_OnlyLowerPrefixStripped ==
    Called =>
        /\ (IsHexText(gen, <<"0", "x">>) \/ IsHexText(gen, <<>>)) =>
               nOut = Return(SeedBytes(gen))
        /\ IsHexText(gen, <<"0", "X">>) =>
               nOut = Raise(ErrHexLen(HexChars + 2, nIn.v))

C6_Witness ==
    /\ nPc = "called"
    /\ IsHexText(gen, <<"0", "X">>)
    /\ ~nOut.ok
    /\ nOut.exc.msg[2] = "66"

\* what C7 says bytes32_from_any accepts: a byte sequence of length 32, or a
\* string whose text after removing a leading "0x" is exactly 64 hex digits
C7_Acceptable(v) ==
    \/ v.t = "bytes" /\ Len(v.v) = IdBytes
    \/ /\ v.t = "str"
       /\ LET h == IF Len(v.v) >= 2 /\ v.v[1] = "0" /\ v.v[2] = "x"
                   THEN SubSeq(v.v, 3, Len(v.v)) ELSE v.v
          IN  Len(h) = HexChars /\ \A k \in 1..Len(h) : IsHexDigit(h[k])

\* C7: bytes32_from_any succeeds exactly on the acceptable inputs and raises
\* its ValueError on every other input; every value it returns has 32 bytes.
C7_AcceptsExactly ==
    Called =>
        /\ nOut.ok <=> C7_Acceptable(nIn)
        /\ nOut.ok => Len(nOut.val) = IdBytes
        /\ ~nOut.ok => nOut.exc.cls = "ValueError"

-----------------------------------------------------------------------------
(* Claims about main(), checked under Spec *)

Assembled == pc \in {"write", "done"}

\* the accessor invocations made for row i
CallsFor(i) == { k \in 1..Len(callLog) : callLog[k].row = i }
AccessorReturned(i) == \E k \in CallsFor(i) : callLog[k].reply.ok
AccessorFailed(i)   == \E k \in CallsFor(i) : ~callLog[k].reply.ok

Mentions(text, fragment) == \E k \in 1..Len(text) : text[k] = fragment

\* a failed output row: empty account, amount and amountClaimed, and an
\* error that is a non-empty text
FailedShape(d) ==
    /\ DictHas(d, "account") /\ DictGet(d, "account") = [t |-> "str", v |-> <<>>]
    /\ DictHas(d, "amount") /\ DictGet(d, "amount") = [t |-> "str", v |-> <<>>]
    /\ DictHas(d, "amountClaimed")
    /\ DictGet(d, "amountClaimed") = [t |-> "str", v |-> <<>>]
    /\ DictHas(d, "error")
    /\ DictGet(d, "error").t = "str"
    /\ DictGet(d, "error").v # <<>>

\* C1: when the pipeline has finished, the output table has exactly as many
\* rows as the input, and output row i carries the owner and the vestingId
\* text of input row i.
C1_RowCorrespondence ==
    Assembled =>
        /\ Len(out_df.data) = Len(df)
        /\ \A i \in 1..Len(df) :
              /\ out_df.data[i]["owner"] = df[i].owner
              /\ out_df.data[i]["vestingId"] = [t |-> "str", v |-> df[i].vestingId.v]

C1_Witness ==
    /\ pc = "done"
    /\ Len(df) = 3
    /\ df[1] = df[2]
    /\ df[3] # df[1]
    /\ n_err = 1
    /\ Len(out_df.data) = 3

\* C2: for every input table the driver runs to completion and returns 0:
\* neither a row nor the assembly of the output table aborts the run.
C2_RunsToCompletion ==
    /\ status \in {"running", "return 0"}
    /\ pc \in {"loop", "write", "done"}
    /\ status = "return 0" <=> pc = "done"

\* C3: a row whose accessor call fails yields a failed output row whose
\* error is the repr of that failure, and every other row is what its own
\* input and its own accessor reply make it, whatever happened to the rows
\* before and after it.
C3_FailureIsolated ==
    /\ Len(rows) = idx
    /\ \A i \in 1..idx :
          /\ AccessorFailed(i) =>
                /\ FailedShape(rows[i])
                /\ \E k \in CallsFor(i) :
                      DictGet(rows[i], "error").v
                          = <<callLog[k].reply.exc.cls, "('">>
                            \o callLog[k].reply.exc.msg \o <<"')">>
          /\ AccessorReturned(i) =>
                \E k \in CallsFor(i) :
                    rows[i] = << [k |-> "owner", v |-> df[i].owner],
                                 [k |-> "vestingId",
                                  v |-> [t |-> "str", v |-> df[i].vestingId.v]],
                                 [k |-> "account", v |-> callLog[k].reply.val[1]],
                                 [k |-> "amount", v |-> callLog[k].reply.val[6]],
                                 [k |-> "amountClaimed",
                                  v |-> callLog[k].reply.val[7]] >>
          /\ CallsFor(i) = {} => FailedShape(rows[i])
          /\ Assembled =>
                \A j \in 1..Len(rows[i]) :
                    out_df.data[i][rows[i][j].k] = rows[i][j].v

C3_Witness ==
    /\ pc = "done"
    /\ Len(df) = 3
    /\ AccessorReturned(1) /\ ~DictHas(rows[1], "error")
    /\ AccessorFailed(2) /\ FailedShape(rows[2])
    /\ AccessorReturned(3) /\ ~DictHas(rows[3], "error")
    /\ df[1] = df[3]

\* C4: the accessor is invoked exactly once for a consumed row whose
\* vestingId normalizes and never for one whose normalization fails (nor
\* for a row not yet consumed); a row whose normalization fails yields a
\* failed output row.
C4_OneCallPerValidRow ==
    /\ Len(rows) = idx
    /\ \A i \in 1..Len(df) :
          IF i > idx THEN CallsFor(i) = {}
          ELSE IF bytes32_from_any(df[i].vestingId).ok
               THEN Cardinality(CallsFor(i)) = 1
               ELSE CallsFor(i) = {} /\ FailedShape(rows[i])

C4_Witness ==
    /\ pc = "done"
    /\ \E i, j \in 1..Len(df) :
          /\ ~bytes32_from_any(df[i].vestingId).ok
          /\ CallsFor(i) = {}
          /\ AccessorFailed(j)
          /\ Cardinality(CallsFor(j)) = 1

\* the text of a string vestingId after a leading "0x" is removed
AfterPrefix(s) ==
    IF Len(s) >= 2 /\ s[1] = "0" /\ s[2] = "x" THEN SubSeq(s, 3, Len(s)) ELSE s

InvalidHexText == "Invalid hex in vestingId: "
WrongLengthText == "vestingId must be 32 bytes hex (64 chars). Got len="

\* C8 as claimed: a row whose vestingId is a string with a non-hexadecimal
\* character after prefix stripping, whatever its length, yields a failed
\* output row whose error reports invalid hex.  (Stated for characters that
\* are not whitespace either, such as the "-" of "not-hex".)
C8_NonHexReportsInvalidHex ==
    /\ Len(rows) = idx
    /\ \A i \in 1..idx :
          (/\ df[i].vestingId.t = "str"
           /\ \E k \in 1..Len(AfterPrefix(df[i].vestingId.v)) :
                 /\ ~IsHexDigit(AfterPrefix(df[i].vestingId.v)[k])
                 /\ AfterPrefix(df[i].vestingId.v)[k] \notin Whitespace)
          => /\ FailedShape(rows[i])
             /\ Mentions(DictGet(rows[i], "error").v, InvalidHexText)

\* C8 amended: the length is checked before the digits.  A row whose
\* vestingId string, stripped of surrounding whitespace and of a leading
\* "0x", is not exactly 64 characters long yields a failed output row whose
\* error reports the wrong length and not invalid hex; one that is exactly 64
\* characters long and holds a character that is neither a hex digit nor
\* whitespace yields a failed output row whose error reports invalid hex.
C8_LengthBeforeHex ==
    /\ Len(rows) = idx
    /\ \A i \in 1..idx :
          df[i].vestingId.t = "str" =>
             LET h == AfterPrefix(Strip(df[i].vestingId.v)) IN
             /\ Len(h) # HexChars =>
                   /\ FailedShape(rows[i])
                   /\ Mentions(DictGet(rows[i], "error").v, WrongLengthText)
                   /\ ~Mentions(DictGet(rows[i], "error").v, InvalidHexText)
             /\ (/\ Len(h) = HexChars
                 /\ \E k \in 1..Len(h) : ~IsHexDigit(h[k]) /\ h[k] \notin Whitespace)
                => /\ FailedShape(rows[i])
                   /\ Mentions(DictGet(rows[i], "error").v, InvalidHexText)

C8_Witness ==
    /\ pc = "done"
    /\ \E i, j \in 1..Len(df) :
          /\ df[i].vestingId = [t |-> "str", v |-> <<"n", "o", "t", "-", "h", "e", "x">>]
          /\ Mentions(out_df.data[i]["error"].v, WrongLengthText)
          /\ df[j].vestingId.t = "str"
          /\ Len(df[j].vestingId.v) = HexChars
          /\ df[j].vestingId.v[1] = "g"
          /\ Mentions(out_df.data[j]["error"].v, InvalidHexText)

C10_SuccessRow ==
    /\ Len(rows) = idx
    /\ Assembled => Len(out_df.data) = idx
    /\ \A k \in 1..Len(callLog) :
          callLog[k].reply.ok =>
             LET i == callLog[k].row
                 r == callLog[k].reply.val
             IN  /\ DictKeys(rows[i])
                       = <<"owner", "vestingId", "account", "amount", "amountClaimed">>
                 /\ DictGet(rows[i], "owner") = df[i].owner
                 /\ DictGet(rows[i], "vestingId") = [t |-> "str", v |-> df[i].vestingId.v]
                 /\ DictGet(rows[i], "account") = r[1]
                 /\ DictGet(rows[i], "amount") = r[6]
                 /\ DictGet(rows[i], "amountClaimed") = r[7]
                 /\ Assembled =>
                       /\ \A c \in DOMAIN out_df.data[i] :
                             c # "error" => out_df.data[i][c] = DictGet(rows[i], c)
                       /\ "error" \in DOMAIN out_df.data[i] =>
                             out_df.data[i]["error"] = [t |-> "float", v |-> <<"n", "a", "n">>]

C10_Witness ==
    /\ pc = "done"
    /\ \E i \in 1..Len(df) :
          /\ AccessorReturned(i)
          /\ Head(df[i].vestingId.v) = " "
          /\ out_df.data[i]["vestingId"].v = df[i].vestingId.v
          /\ out_df.data[i]["amount"] = [t |-> "int", v |-> [k \in 1..8 |-> 65535]]
          /\ out_df.data[i]["account"] = [t |-> "str", v |-> <<"0xCAFE">>]
          /\ "error" \in DOMAIN out_df.data[i]

=============================================================================
